---- MODULE Spec2Model ----
(***************************************************************************)
(* Model of HashTable<K, V> (src/src/lib.rs): a bucket array of optional   *)
(* entries, one entry per bucket, with a size counter, grown by a fixed    *)
(* increment through resize(), which re-inserts the old entries through    *)
(* insert().  The mutual recursion insert -> resize -> insert is modelled  *)
(* with an explicit call stack, one step per statement group.              *)
(***************************************************************************)
EXTENDS Integers, Sequences, FiniteSets, TLC

\* ---------------------------------------------------------------- bounds
\* Keys are 1..MaxKey, values 1..MaxVal, at most MaxInserts public inserts.
MaxKey == 2
MaxVal == 2
MaxInserts == 4

\* The full-table runs insert the keys 1..MaxFillKey once each, in order.
MaxFillKey == 102

Keys == 1..MaxKey
Vals == 1..MaxVal

\* Arguments given to new(), and the hash codes a key's Hash impl may yield.
\* 0 and 3 collide under capacity 3; 0 and 103 collide under capacity 103
\* but not under capacity 3.
Capacities == {0, 1, 3}
HashCodes == {0, 3, 103}

\* The full-table runs: a rehash re-inserts 100 entries or more only from a
\* table of at least DEFAULT_BUCKET_SIZE occupied buckets.
FillKeys == 1..MaxFillKey
FillCapacities == {100, 101}

\* ------------------------------------------------------ program constants
DEFAULT_BUCKET_SIZE == 100

\* Option<T>: None is the empty sequence, Some(x) the one-element sequence.
None == <<>>
Some(x) == <<x>>

\* struct KV { key, value }
KV(k, v) == [key |-> k, value |-> v]

VARIABLES
    buckets,    \* self.buckets: Vec<Option<KV>>; bucket index i is buckets[i+1]
    size,       \* self.size
    hash,       \* the hash code of every key (DefaultHasher over K's Hash impl)
    stack,      \* call stack of insert / resize frames, innermost last
    status,     \* "ok", or "panicked" once a call has aborted
    model,      \* history: per key, the value of its most recent public insert
    ninserts,   \* history: number of public insert calls made
    pre,        \* history: buckets and size when the last public call started
    last        \* history: the last public call (for new, value is its
                \* argument) and what it returned

vars == <<buckets, size, hash, stack, status, model, ninserts, pre, last>>

\* Mutant: Vec::with_capacity(n), which reserves room but has length 0.
EmptyBuckets_WithCapacity(n) == <<>>

\* vec![None; n]
EmptyBuckets(n) == [i \in 1..n |-> None]

\* self.buckets.len()
Capacity == Len(buckets)

\* create_index: hash % (self.buckets.len() as u64); the remainder by zero
\* panics when the bucket array is empty.
CreateIndexPanics(b) == Len(b) = 0
create_index(b, key) == hash[key] % Len(b)

\* get, lines 94-97, on a bucket array where create_index does not panic.
get_in(b, key) ==
    LET index == create_index(b, key)
        slot == b[index + 1]
    IN  IF slot # None /\ slot[1].key = key THEN Some(slot[1].value) ELSE None

get(key) == get_in(buckets, key)

Idle == Len(stack) = 0 /\ status = "ok"
Top == stack[Len(stack)]
Pop == SubSeq(stack, 1, Len(stack) - 1)
ReplaceTop(f) == [stack EXCEPT ![Len(stack)] = f]

InsertFrame(k, v, pc) == [fn |-> "insert", key |-> k, value |-> v, pc |-> pc]
ResizeFrame(old, i) == [fn |-> "resize", old_buckets |-> old, i |-> i]

Snapshot == [buckets |-> buckets, size |-> size]

\* HashTable::new(with_capacity)
Init ==
    /\ \E c \in Capacities :
           /\ buckets = EmptyBuckets(c)
           /\ last = [op |-> "new", key |-> 0, value |-> c, result |-> None]
    /\ size = 0
    /\ hash \in [Keys -> HashCodes]
    /\ stack = <<>>
    /\ status = "ok"
    /\ model = [k \in Keys |-> None]
    /\ ninserts = 0
    /\ pre = [buckets |-> <<>>, size |-> 0]

\* ------------------------------------------------------------ operations
\* Mutants: the resize condition without the + 1, and with >= for >.
NeedsResize_Strict(sz, b) == sz > Len(b)
NeedsResize_Eager(sz, b) == sz + 1 >= Len(b)

\* insert, line 78: the resize condition.
NeedsResize(sz, b) == sz + 1 > Len(b)

\* Mutant: the old array extended in place, its entries left where they were.
ResizedBuckets_Extend(old) == old \o EmptyBuckets(DEFAULT_BUCKET_SIZE)

\* resize, line 119: the new bucket array.
ResizedBuckets(old) == EmptyBuckets(Len(old) + DEFAULT_BUCKET_SIZE)

\* Mutant: the entry is stored only into a vacant bucket.
StoreKV_IfVacant(b, key, value) ==
    IF b[create_index(b, key) + 1] = None
    THEN [b EXCEPT ![create_index(b, key) + 1] = Some(KV(key, value))]
    ELSE b

\* insert, line 89: self.buckets[index] = Some(kv).
StoreKV(b, key, value) ==
    [b EXCEPT ![create_index(b, key) + 1] = Some(KV(key, value))]

\* A public insert(key, value) call is entered.
InsertCall(key, value) ==
    /\ Idle
    /\ ninserts < MaxInserts
    /\ stack' = <<InsertFrame(key, value, "check")>>
    /\ pre' = Snapshot
    /\ ninserts' = ninserts + 1
    /\ last' = [op |-> "insert", key |-> key, value |-> value, result |-> None]
    /\ UNCHANGED <<buckets, size, hash, status, model>>

\* insert, lines 78-80: if size + 1 > len, call resize(), whose lines
\* 118-119 keep the old array and replace self.buckets by a larger one.
InsertCheck ==
    /\ status = "ok"
    /\ Len(stack) > 0
    /\ Top.fn = "insert"
    /\ Top.pc = "check"
    /\ IF NeedsResize(size, buckets)
       THEN /\ buckets' = ResizedBuckets(buckets)
            /\ stack' = Append(ReplaceTop(InsertFrame(Top.key, Top.value, "store")),
                               ResizeFrame(buckets, 1))
       ELSE /\ buckets' = buckets
            /\ stack' = ReplaceTop(InsertFrame(Top.key, Top.value, "store"))
    /\ UNCHANGED <<size, hash, status, model, ninserts, pre, last>>

\* Mutant: the loop does not move past an empty bucket.
ResizeLoop_Stuck ==
    /\ status = "ok"
    /\ Len(stack) > 0
    /\ Top.fn = "resize"
    /\ Top.i <= Len(Top.old_buckets)
    /\ LET bucket == Top.old_buckets[Top.i]
           next == ResizeFrame(Top.old_buckets, Top.i + 1)
       IN  IF bucket # None
           THEN stack' = Append(ReplaceTop(next),
                                InsertFrame(bucket[1].key, bucket[1].value, "check"))
           ELSE stack' = stack
    /\ UNCHANGED <<buckets, size, hash, status, model, ninserts, pre, last>>

\* resize, lines 121-125: one iteration of the loop over old_buckets; an
\* occupied bucket is re-inserted through insert().
ResizeLoop ==
    /\ status = "ok"
    /\ Len(stack) > 0
    /\ Top.fn = "resize"
    /\ Top.i <= Len(Top.old_buckets)
    /\ LET bucket == Top.old_buckets[Top.i]
           next == ResizeFrame(Top.old_buckets, Top.i + 1)
       IN  IF bucket # None
           THEN stack' = Append(ReplaceTop(next),
                                InsertFrame(bucket[1].key, bucket[1].value, "check"))
           ELSE stack' = ReplaceTop(next)
    /\ UNCHANGED <<buckets, size, hash, status, model, ninserts, pre, last>>

\* resize, line 126: the loop is over, resize returns.
ResizeReturn ==
    /\ status = "ok"
    /\ Len(stack) > 0
    /\ Top.fn = "resize"
    /\ Top.i > Len(Top.old_buckets)
    /\ stack' = Pop
    /\ UNCHANGED <<buckets, size, hash, status, model, ninserts, pre, last>>

\* insert, lines 82-91: build the entry, compute its index, overwrite the
\* bucket, increment size, return.  The outermost frame is the public call.
InsertStore ==
    /\ status = "ok"
    /\ Len(stack) > 0
    /\ Top.fn = "insert"
    /\ Top.pc = "store"
    /\ IF CreateIndexPanics(buckets)
       THEN /\ status' = "panicked"
            /\ UNCHANGED <<buckets, size, stack, model>>
       ELSE /\ buckets' = StoreKV(buckets, Top.key, Top.value)
            /\ size' = size + 1
            /\ stack' = Pop
            /\ status' = status
            /\ model' = IF Len(stack) = 1
                        THEN [model EXCEPT ![Top.key] = Some(Top.value)]
                        ELSE model
    /\ UNCHANGED <<hash, ninserts, pre, last>>

\* A public get(key) call, lines 93-98.
Get(key) ==
    /\ Idle
    /\ pre' = Snapshot
    /\ IF CreateIndexPanics(buckets)
       THEN /\ status' = "panicked"
            /\ last' = [op |-> "get", key |-> key, value |-> 0, result |-> None]
       ELSE /\ status' = status
            /\ last' = [op |-> "get", key |-> key, value |-> 0, result |-> get(key)]
    /\ UNCHANGED <<buckets, size, hash, stack, model, ninserts>>

\* A public size() call, lines 73-75.
Size ==
    /\ Idle
    /\ pre' = Snapshot
    /\ last' = [op |-> "size", key |-> 0, value |-> 0, result |-> Some(size)]
    /\ UNCHANGED <<buckets, size, hash, stack, status, model, ninserts>>

\* A public delete(key) call, lines 100-102: todo!() panics.
Delete(key) ==
    /\ Idle
    /\ pre' = Snapshot
    /\ status' = "panicked"
    /\ last' = [op |-> "delete", key |-> key, value |-> 0, result |-> None]
    /\ UNCHANGED <<buckets, size, hash, stack, model, ninserts>>

\* A public keys() call, lines 104-106: todo!() panics.
KeysCall ==
    /\ Idle
    /\ pre' = Snapshot
    /\ status' = "panicked"
    /\ last' = [op |-> "keys", key |-> 0, value |-> 0, result |-> None]
    /\ UNCHANGED <<buckets, size, hash, stack, model, ninserts>>

Next ==
    \/ \E key \in Keys, value \in Vals : InsertCall(key, value)
    \/ InsertCheck
    \/ ResizeLoop
    \/ ResizeReturn
    \/ InsertStore
    \/ \E key \in Keys : Get(key)
    \/ Size
    \/ \E key \in Keys : Delete(key)
    \/ KeysCall

Spec == Init /\ [][Next]_vars

\* ------------------------------------------------------- full-table runs
\* new(c) with c of DEFAULT_BUCKET_SIZE or more, keys whose hash codes are
\* pairwise distinct (key k has hash code k - 1), inserted in order.
InitFill ==
    /\ \E c \in FillCapacities :
           /\ buckets = EmptyBuckets(c)
           /\ last = [op |-> "new", key |-> 0, value |-> c, result |-> None]
    /\ size = 0
    /\ hash = [k \in FillKeys |-> k - 1]
    /\ stack = <<>>
    /\ status = "ok"
    /\ model = [k \in FillKeys |-> None]
    /\ ninserts = 0
    /\ pre = [buckets |-> <<>>, size |-> 0]

\* A public insert(key, 1) call is entered, for the next key in order.
InsertNext ==
    /\ Idle
    /\ ninserts < MaxFillKey
    /\ stack' = <<InsertFrame(ninserts + 1, 1, "check")>>
    /\ pre' = Snapshot
    /\ ninserts' = ninserts + 1
    /\ last' = [op |-> "insert", key |-> ninserts + 1, value |-> 1, result |-> None]
    /\ UNCHANGED <<buckets, size, hash, status, model>>

\* The steps of a call in progress: they run to completion on the calling
\* thread.
Step ==
    \/ InsertCheck
    \/ ResizeLoop
    \/ ResizeReturn
    \/ InsertStore

\* Both families of runs: the small tables with every hash assignment, and
\* the full tables.
InitAll == Init \/ InitFill

SmallRun == DOMAIN hash = Keys
FillRun == DOMAIN hash = FillKeys

NextAll ==
    \/ \E key \in Keys, value \in Vals : SmallRun /\ InsertCall(key, value)
    \/ \E key \in Keys : SmallRun /\ Get(key)
    \/ SmallRun /\ Size
    \/ \E key \in Keys : SmallRun /\ Delete(key)
    \/ SmallRun /\ KeysCall
    \/ FillRun /\ InsertNext
    \/ InsertCheck
    \/ ResizeLoop
    \/ ResizeReturn
    \/ InsertStore

SpecAll == InitAll /\ [][NextAll]_vars

\* The insert calls alone, of both families of runs.
NextInserts ==
    \/ \E key \in Keys, value \in Vals : SmallRun /\ InsertCall(key, value)
    \/ FillRun /\ InsertNext
    \/ InsertCheck
    \/ ResizeLoop
    \/ ResizeReturn
    \/ InsertStore

\* A call in progress is not suspended: its next step is eventually taken.
FairSpec == InitAll /\ [][NextInserts]_vars /\ WF_vars(Step)

\* ------------------------------------------------------------ properties
\* The occupied bucket positions of a bucket array, and whether it holds key.
Occupied(b) == {i \in 1..Len(b) : b[i] # None}
Holds(b, key) == \E i \in Occupied(b) : b[i][1].key = key

\* get(key) returns normally with result r.
GetReturns(key, r) == ~CreateIndexPanics(buckets) /\ get(key) = r

\* The last public call was op and it has returned normally.
Returned(op) == Idle /\ last.op = op

\* C1: between public calls, every key whose most recent insert was
\* insert(k, v) is read back by get(k) as Some(v), whatever other keys were
\* inserted and whatever their indices.
C1_GetReturnsLastInsert ==
    Idle => \A k \in Keys : model[k] # None => GetReturns(k, model[k])

\* C2: after insert(k1, v1); insert(k2, v2) of two distinct keys whose
\* indices are equal under the current capacity, both are retrievable.
C2_CollidingKeysRetrievable ==
    \A k1, k2 \in Keys :
        ( /\ Idle
          /\ ninserts = 2
          /\ k1 # k2
          /\ model[k1] # None
          /\ model[k2] # None
          /\ create_index(buckets, k1) = create_index(buckets, k2) )
        => GetReturns(k1, model[k1]) /\ GetReturns(k2, model[k2])

\* C3: after new and after each completed insert, size equals the number
\* of occupied buckets.
C3_SizeIsOccupiedCount ==
    Idle => size = Cardinality(Occupied(buckets))

\* C4: after n inserts of pairwise distinct keys, size() = n.
C4_SizeIsDistinctInserts ==
    (Idle /\ Cardinality({k \in Keys : model[k] # None}) = ninserts)
    => size = ninserts

\* C5: insert(k, v2) of a key already present replaces the value and
\* leaves size as it was; insert of an absent key adds one to size.
C5_InsertUpdatesOrAdds ==
    Returned("insert") =>
        IF Holds(pre.buckets, last.key)
        THEN GetReturns(last.key, Some(last.value)) /\ size = pre.size
        ELSE size = pre.size + 1

\* C6: an insert that triggers resize() loses and duplicates no entry:
\* the rehash ends with as many live entries as the table held before it,
\* and after the insert returns every other key reads as it did before.
C6_ResizePreservesEntries ==
    /\ ( /\ status = "ok"
         /\ Len(stack) = 1
         /\ Top.pc = "store"
         /\ NeedsResize(pre.size, pre.buckets) )
       => Cardinality(Occupied(buckets)) = Cardinality(Occupied(pre.buckets))
    /\ (Returned("insert") /\ NeedsResize(pre.size, pre.buckets))
       => \A k \in Keys \ {last.key} :
              Holds(pre.buckets, k) => GetReturns(k, get_in(pre.buckets, k))

\* C7: between public calls, get(k) returns Some(v) only if an entry with
\* key k and value v is stored, and returns None for every key that was
\* never inserted.
C7_GetDecidesOnKey ==
    Idle => \A k \in Keys :
        /\ \A v \in Vals :
               GetReturns(k, Some(v)) =>
                   \E i \in Occupied(buckets) : buckets[i] = Some(KV(k, v))
        /\ model[k] = None => GetReturns(k, None)

\* C8: delete(k) returns; if k was present, get(k) then finds nothing and
\* size is one less; if k was absent, size and all entries are unchanged.
C8_DeleteRemovesEntry ==
    last.op = "delete" =>
        /\ status = "ok"
        /\ IF Holds(pre.buckets, last.key)
           THEN GetReturns(last.key, None) /\ size = pre.size - 1
           ELSE buckets = pre.buckets /\ size = pre.size

\* C9: every public operation (size, insert, get, delete, keys) returns
\* normally from every reachable state.
C9_OperationsTotal ==
    last.op \in {"size", "insert", "get", "delete", "keys"} => status = "ok"

\* C10: the capacity is greater than zero in every reachable state,
\* the state right after new(c) included.
C10_CapacityPositive ==
    Capacity > 0

\* The index of key under the capacity of bucket array b, as a position.
Position(b, key) == (hash[key] % Len(b)) + 1

\* The last public call was an insert that has returned, entered with
\* size() + 1 > capacity (Resizing) or with size() + 1 <= capacity.
ReturnedResizing == Returned("insert") /\ pre.size + 1 > Len(pre.buckets)
ReturnedInPlace == Returned("insert") /\ pre.size + 1 <= Len(pre.buckets)

\* C11: insert never aborts: whenever an insert, public or inside a rehash,
\* is about to store, the capacity is positive and the index of its key is
\* a position of the current bucket array, and no insert call ends in a
\* panic, a table created with capacity 0 included.
C11_InsertSucceeds ==
    /\ last.op = "insert" => status = "ok"
    /\ (Len(stack) > 0 /\ Top.fn = "insert" /\ Top.pc = "store")
       => /\ Len(buckets) > 0
          /\ create_index(buckets, Top.key) >= 0
          /\ create_index(buckets, Top.key) < Len(buckets)

\* C11 witness: an insert into a table created with capacity 0 has returned.
C11_Witness ==
    Returned("insert") /\ ninserts = 1 /\ Len(pre.buckets) = 0

\* C12: the iteration operation returns and yields every live (key, value)
\* entry exactly once and nothing else.
C12_IterationYieldsEntries ==
    last.op = "keys" =>
        /\ status = "ok"
        /\ Len(last.result) = Cardinality(Occupied(pre.buckets))
        /\ \A i \in Occupied(pre.buckets) :
               \E j \in DOMAIN last.result : last.result[j] = pre.buckets[i][1]

\* C13: right after new(c), size() is 0, the bucket array has length c and
\* every bucket is empty, so that for c > 0 get(k) returns None for every k.
C13_NewIsEmpty ==
    last.op = "new" =>
        /\ size = 0
        /\ Len(buckets) = last.value
        /\ \A i \in DOMAIN buckets : buckets[i] = None
        /\ last.value > 0 => \A k \in DOMAIN hash : GetReturns(k, None)

\* C13 witness: the table right after new(3), where get finds nothing.
C13_Witness ==
    last.op = "new" /\ last.value = 3 /\ Len(buckets) = 3 /\ GetReturns(1, None)

\* C14: between public calls, every occupied bucket holds a key whose hash
\* code modulo the current capacity is the bucket's index, and no key is
\* held by two buckets, also after resizes and resizes nested in a rehash.
C14_PlacementAndUniqueness ==
    Idle =>
        /\ \A i \in Occupied(buckets) : Position(buckets, buckets[i][1].key) = i
        /\ \A i, j \in Occupied(buckets) :
               buckets[i][1].key = buckets[j][1].key => i = j

\* C14 witness: an insert has returned whose rehash contained another
\* resize (the capacity grew by two increments), with the entries in place.
C14_Witness ==
    /\ Returned("insert")
    /\ Len(buckets) = Len(pre.buckets) + 2 * DEFAULT_BUCKET_SIZE
    /\ Cardinality(Occupied(buckets)) > DEFAULT_BUCKET_SIZE

\* C15: a public insert entered with size() + 1 <= capacity leaves the
\* capacity unchanged; one entered with size() + 1 > capacity returns with
\* the capacity grown by exactly DEFAULT_BUCKET_SIZE and the new entry at
\* its index under the new capacity.
C15_ResizeTriggerAndStep ==
    /\ ReturnedInPlace => Len(buckets) = Len(pre.buckets)
    /\ ReturnedResizing =>
           /\ Len(buckets) = Len(pre.buckets) + DEFAULT_BUCKET_SIZE
           /\ buckets[Position(buckets, last.key)] = Some(KV(last.key, last.value))

\* C16: after every public insert call returns, size() <= capacity.
C16_SizeWithinCapacity ==
    Returned("insert") => size <= Len(buckets)

\* C17: every insert call terminates: whenever a call is in progress, also
\* inside nested insert -> resize -> insert recursion, the outermost insert
\* eventually returns.
C17_InsertTerminates ==
    (Len(stack) > 0) ~> (Len(stack) = 0 /\ status = "ok")

\* C17 witness: an insert runs inside a resize that runs inside the rehash
\* of another resize.
C17_Witness ==
    /\ status = "ok"
    /\ Len(stack) >= 5
    /\ Top.fn = "insert"

\* C18: immediately after insert(k, v) returns, get(k) returns Some(v),
\* also when the bucket at index(k) was occupied by another key and when
\* the call resized.
C18_ReadYourOwnWrite ==
    Returned("insert") => GetReturns(last.key, Some(last.value))

\* C18 witness: the returned insert replaced another key's entry at its index.
C18_Witness ==
    /\ ReturnedInPlace
    /\ pre.buckets[Position(pre.buckets, last.key)] # None
    /\ pre.buckets[Position(pre.buckets, last.key)][1].key # last.key
    /\ GetReturns(last.key, Some(last.value))

\* C19: a public insert(k, v) entered with size() + 1 <= capacity changes
\* only the bucket at index(k) and size: the capacity and every other
\* bucket are as before, so get(k2) is as before for every key k2 of
\* another index; get and size change neither buckets nor size.
C19_InsertFrame ==
    /\ ReturnedInPlace =>
           /\ Len(buckets) = Len(pre.buckets)
           /\ \A i \in DOMAIN buckets :
                  i # Position(buckets, last.key) => buckets[i] = pre.buckets[i]
           /\ \A k2 \in DOMAIN hash :
                  Position(buckets, k2) # Position(buckets, last.key)
                  => get(k2) = get_in(pre.buckets, k2)
    /\ last.op \in {"get", "size"} => buckets = pre.buckets /\ size = pre.size

\* C19 witness: an insert without resize has returned while another key,
\* of another index, is held and still read back.
C19_Witness ==
    /\ ReturnedInPlace
    /\ \E k2 \in DOMAIN hash :
           /\ Position(buckets, k2) # Position(buckets, last.key)
           /\ Holds(pre.buckets, k2)
           /\ get(k2) # None

====
